---- MODULE Spec2Model ----
(***************************************************************************)
(* A model of the image prediction agent (src/agent.py): the extension     *)
(* filter, the retried upload, the confidence extractor, the per-image     *)
(* pipeline that writes the results and review records, the startup scan   *)
(* and the watchdog listener started after it.                             *)
(*                                                                         *)
(* File names are sequences of one-character strings, so that pathlib's    *)
(* suffix/stem split, str.lower() and the ordering used by sorted() are    *)
(* computed rather than assumed.  Confidence values are integers counting  *)
(* hundredths (0.8 is 80, 1.0 is 100).                                     *)
(***************************************************************************)
EXTENDS Integers, Sequences, FiniteSets, TLC

VARIABLES
    watchDir,     \* names of the entries present in the watch directory
    dirExists,    \* watch_dir.exists()
    noWatch,      \* args.no_watch
    pc,           \* position of main()
    scanList,     \* the sorted listing taken by scan_existing_and_process
    scanIdx,      \* index of the next entry of scanList
    observer,     \* state of the watchdog observer thread
    eventQueue,   \* creation events delivered and not yet dispatched
    h,            \* the handle_image call in progress, if any
    results,      \* results_dir: file stem -> record
    review,       \* review_dir: file stem -> record
    runs,         \* history: one entry per finished handle_image call
    interrupted,  \* a KeyboardInterrupt has been delivered
    creates,      \* history: number of entries created during the run
    input,        \* argument of the extract_max_confidence call under study
    output        \* [done, value]: its result

vars == <<watchDir, dirExists, noWatch, pc, scanList, scanIdx, observer,
          eventQueue, h, results, review, runs, interrupted, creates,
          input, output>>

(***************************************************************************)
(* Bounds of the model.                                                    *)
(***************************************************************************)
\* Entries created in the watch directory while the agent runs.
MaxCreates == 2
\* Length of the detections / predictions lists given to the extractor.
MaxLen == 2

(***************************************************************************)
(* Characters and paths.                                                   *)
(***************************************************************************)
\* Code points of the characters the file names use (the order sorted() sees).
Ord(c) ==
    CASE c = "." -> 46
      [] c = "G" -> 71
      [] c = "N" -> 78
      [] c = "P" -> 80
      [] c = "a" -> 97
      [] c = "d" -> 100
      [] c = "g" -> 103
      [] c = "j" -> 106
      [] c = "n" -> 110
      [] c = "p" -> 112
      [] c = "t" -> 116
      [] c = "x" -> 120

\* str.lower() on one character.
LowerChar(c) ==
    CASE c = "G" -> "g"
      [] c = "N" -> "n"
      [] c = "P" -> "p"
      [] OTHER -> c

\* str.lower()
Lower(s) == [i \in 1..Len(s) |-> LowerChar(s[i])]

\* str.rfind('.') as a 1-based index, 0 when there is no dot.
RFindDot(name) ==
    LET dots == {i \in 1..Len(name) : name[i] = "."}
    IN  IF dots = {} THEN 0 ELSE CHOOSE i \in dots : \A j \in dots : j <= i

\* PurePath.suffix: the last dot-separated part, unless the dot is the first
\* or the last character of the name.
Suffix(name) ==
    LET i == RFindDot(name)
    IN  IF 1 < i /\ i < Len(name) THEN SubSeq(name, i, Len(name)) ELSE <<>>

\* PurePath.stem
Stem(name) ==
    LET i == RFindDot(name)
    IN  IF 1 < i /\ i < Len(name) THEN SubSeq(name, 1, i - 1) ELSE name

SupportedSuffixes ==
    { <<".", "j", "p", "g">>, <<".", "j", "p", "e", "g">>, <<".", "p", "n", "g">>,
      <<".", "b", "m", "p">>, <<".", "g", "i", "f">> }

\* The filter with the lower() forgotten.
is_image_file_case_sensitive(path) == Suffix(path) \in SupportedSuffixes

is_image_file(path) == Lower(Suffix(path)) \in SupportedSuffixes

\* The order of str (and of PurePosixPath) comparison: lexicographic by code point.
RECURSIVE NameLess(_, _)
NameLess(a, b) ==
    IF a = <<>> THEN b # <<>>
    ELSE IF b = <<>> THEN FALSE
    ELSE IF Ord(Head(a)) # Ord(Head(b)) THEN Ord(Head(a)) < Ord(Head(b))
    ELSE NameLess(Tail(a), Tail(b))

\* sorted(): the entries of S in increasing order.
RECURSIVE Sorted(_)
Sorted(S) ==
    IF S = {} THEN <<>>
    ELSE LET m == CHOOSE x \in S : \A y \in S : x = y \/ NameLess(x, y)
         IN  <<m>> \o Sorted(S \ {m})

\* The entries the environment may place in the watch directory.
NameJpg == <<"a", ".", "j", "p", "g">>
NamePng == <<"a", ".", "P", "N", "G">>
NameTxt == <<"n", ".", "t", "x", "t">>
NameDir == <<"d", ".", "j", "p", "g">>
NameDot == <<".", "p", "n", "g">>
Names == {NameJpg, NamePng, NameTxt, NameDir, NameDot}

\* Path.is_file() / event.is_directory: d.jpg is a directory, the rest are files.
IsDirectory(name) == name = NameDir
is_file(name) == ~IsDirectory(name)

(***************************************************************************)
(* JSON values, as far as extract_max_confidence looks into them.          *)
(*   scalar   [t, n]: t is "absent" (the key is missing), "num" (an int    *)
(*            or float, n hundredths), "bool" (n is 1 for true, 0 for      *)
(*            false) or "other" (a string, null, a list, a mapping);       *)
(*   element  [isdict, kv]: one element of a list, kv its three fields;    *)
(*   field    [t, items]: the value under 'detections' / 'predictions',    *)
(*            t is "absent", "list" or "other";                            *)
(*   value    [isdict, confidence, detections, predictions].               *)
(***************************************************************************)
ScoreKeys == <<"confidence", "score", "probability">>

Absent == [t |-> "absent", n |-> 0]
Num(n) == [t |-> "num", n |-> n]
Bool(b) == [t |-> "bool", n |-> IF b THEN 1 ELSE 0]
Other == [t |-> "other", n |-> 0]

NoKeys == [k \in {"confidence", "score", "probability"} |-> Absent]
Dict(c, s, p) == [isdict |-> TRUE,
                  kv |-> [confidence |-> c, score |-> s, probability |-> p]]
NonDict == [isdict |-> FALSE, kv |-> NoKeys]

NoField == [t |-> "absent", items |-> <<>>]
List(items) == [t |-> "list", items |-> items]
NotAList == [t |-> "other", items |-> <<>>]

Mapping(c, d, p) == [isdict |-> TRUE, confidence |-> c, detections |-> d,
                     predictions |-> p]
NonMapping == [isdict |-> FALSE, confidence |-> Absent, detections |-> NoField,
               predictions |-> NoField]

\* isinstance(v, (int, float)): bool is a subclass of int.
IsIntOrFloat(v) == v.t \in {"num", "bool"}

\* float(v) in hundredths: float(True) is 1.0, float(False) is 0.0.
ToFloat(v) == IF v.t = "bool" THEN 100 * v.n ELSE v.n

\* max(a, b)
Max(a, b) == IF b > a THEN b ELSE a

\* The inner loop over ("confidence", "score", "probability") of one element.
RECURSIVE ScanKeys(_, _, _)
ScanKeys(d, i, max_conf) ==
    IF i > Len(ScoreKeys) THEN max_conf
    ELSE LET v == d.kv[ScoreKeys[i]]
         IN  ScanKeys(d, i + 1,
                 IF v.t # "absent" /\ IsIntOrFloat(v)
                     THEN Max(max_conf, ToFloat(v)) ELSE max_conf)

\* The loop over the elements of a detections / predictions list.
RECURSIVE ScanItems(_, _, _)
ScanItems(items, i, max_conf) ==
    IF i > Len(items) THEN max_conf
    ELSE ScanItems(items, i + 1,
             IF items[i].isdict THEN ScanKeys(items[i], 1, max_conf) ELSE max_conf)

extract_max_confidence(resp_json) ==
    IF ~resp_json.isdict THEN 0
    ELSE IF resp_json.detections.t = "list"
        THEN ScanItems(resp_json.detections.items, 1, 0)
    ELSE IF resp_json.confidence.t # "absent" /\ IsIntOrFloat(resp_json.confidence)
        THEN ToFloat(resp_json.confidence)
    ELSE IF resp_json.predictions.t = "list"
        THEN ScanItems(resp_json.predictions.items, 1, 0)
    ELSE 0

(***************************************************************************)
(* The retried upload: @retry(stop=stop_after_attempt(3),                  *)
(* wait=wait_exponential(multiplier=1, min=1, max=10)) around send_image.  *)
(***************************************************************************)
StopAfterAttempt == 3
WaitMultiplier == 1
WaitMin == 1
WaitMax == 10

Min(a, b) == IF b < a THEN b ELSE a

\* The stop condition off by one: a fourth attempt is made.
stop_after_attempt_late(attempt_number) == attempt_number > StopAfterAttempt

\* stop_after_attempt: give up once this many attempts have been made.
stop_after_attempt(attempt_number) == attempt_number >= StopAfterAttempt

\* wait_exponential: the sleep after failed attempt number attempt_number.
wait_exponential(attempt_number) ==
    Max(Max(0, WaitMin), Min(WaitMultiplier * 2 ^ (attempt_number - 1), WaitMax))

\* What one execution of the body of send_image can do: raise ("error": at
\* open, post, raise_for_status or json, all of them inside the retried
\* function), or return the parsed body ("ok").
HighResp == Mapping(Num(95), NoField, NoField)
EqualResp == Mapping(Num(80), NoField, NoField)
LowResp == Mapping(Absent, List(<<Dict(Absent, Num(50), Absent)>>), NoField)
Responses == {HighResp, EqualResp, LowResp}

Outcomes ==
    {[kind |-> "error", body |-> NonMapping]}
        \cup {[kind |-> "ok", body |-> r] : r \in Responses}

(***************************************************************************)
(* The per-image pipeline, handle_image.                                   *)
(***************************************************************************)
\* --threshold, default 0.8
Threshold == 80

Idle == [state |-> "idle", who |-> "none", image |-> <<>>, tried |-> <<>>,
         waits |-> <<>>, resp |-> NonMapping]

\* handle_image is entered: nothing sent yet.
Entered(who, image) == [state |-> "send", who |-> who, image |-> image,
                        tried |-> <<>>, waits |-> <<>>, resp |-> NonMapping]

\* The except clause not matching the error raised by the retry wrapper.
CatchesNoSendError == FALSE

\* except Exception around send_image: the failure is logged, the call returns.
CatchesSendError == TRUE

\* The output named after the whole file name instead of its stem.
OutNameWithSuffix(image_path) == image_path

\* image_path.stem + ".json" (the extension is left implicit)
OutName(image_path) == Stem(image_path)

ResultRecord(image_path, resp) == [image |-> image_path, response |-> resp]

ReviewRecord(image_path, resp, max_conf) ==
    [image |-> image_path, response |-> resp, max_confidence |-> max_conf]

\* The comparison with the threshold made non-strict.
NeedsReviewAtThreshold(max_conf, threshold) == max_conf <= threshold

\* if max_conf < threshold
NeedsReview(max_conf, threshold) == max_conf < threshold

\* open(path, "w") and json.dump: the file is created or overwritten.
WriteFile(dir, name, rec) ==
    [s \in DOMAIN dir \cup {name} |-> IF s = name THEN rec ELSE dir[s]]

NoFiles == [s \in {} |-> Idle]

\* The entry of the history for a finished call.
RunEntry(call, outcome, max_conf) ==
    [who |-> call.who, image |-> call.image, tried |-> call.tried,
     waits |-> call.waits, outcome |-> outcome, resp |-> call.resp,
     score |-> max_conf]

Init ==
    /\ dirExists \in BOOLEAN
    /\ noWatch \in BOOLEAN
    /\ dirExists \/ noWatch
    /\ watchDir \in (IF dirExists THEN SUBSET Names ELSE {{}})
    /\ pc = "start"
    /\ scanList = <<>>
    /\ scanIdx = 1
    /\ observer = "none"
    /\ eventQueue = <<>>
    /\ h = Idle
    /\ results = NoFiles
    /\ review = NoFiles
    /\ runs = <<>>
    /\ interrupted = FALSE
    /\ creates = 0
    /\ input = NonMapping
    /\ output = [done |-> FALSE, value |-> 0]

\* An exception leaves handle_image: in the scan it leaves main as well, in
\* on_created it ends the observer thread that dispatches the events.
Propagate(who) ==
    IF who = "scan"
        THEN pc' = "crashed" /\ UNCHANGED observer
        ELSE observer' = "dead" /\ UNCHANGED pc

\* One attempt of send_image, and what the retry wrapper and the except
\* clause of handle_image do with its outcome.
SendAttempt ==
    /\ h.state = "send"
    /\ \E o \in Outcomes :
        LET tried == Append(h.tried, o)
            attempt_number == Len(tried)
            call == [h EXCEPT !.tried = tried]
        IN  IF o.kind = "ok"
                THEN /\ h' = [call EXCEPT !.state = "write", !.resp = o.body]
                     /\ UNCHANGED <<runs, pc, observer>>
            ELSE IF ~stop_after_attempt(attempt_number)
                THEN /\ h' = [call EXCEPT
                                 !.waits = Append(@, wait_exponential(attempt_number))]
                     /\ UNCHANGED <<runs, pc, observer>>
            ELSE /\ h' = Idle
                 /\ runs' = Append(runs, RunEntry(call, "send_failed", 0))
                 /\ IF CatchesSendError
                        THEN UNCHANGED <<pc, observer>>
                        ELSE Propagate(h.who)
    /\ UNCHANGED <<watchDir, dirExists, noWatch, scanList, scanIdx, eventQueue,
                   results, review, interrupted, creates, input, output>>

\* The rest of handle_image after a successful send: the results record, the
\* score, the review record.  mkdir or open may raise at either write.
WriteRecords ==
    /\ h.state = "write"
    /\ \E fault \in {"none", "results", "review"} :
        LET max_conf == extract_max_confidence(h.resp)
            low == NeedsReview(max_conf, Threshold)
            written == WriteFile(results, OutName(h.image),
                                 ResultRecord(h.image, h.resp))
        IN  IF fault = "results"
                THEN /\ runs' = Append(runs, RunEntry(h, "results_failed", 0))
                     /\ Propagate(h.who)
                     /\ UNCHANGED <<results, review>>
            ELSE IF fault = "review" /\ low
                THEN /\ runs' = Append(runs, RunEntry(h, "review_failed", max_conf))
                     /\ results' = written
                     /\ Propagate(h.who)
                     /\ UNCHANGED review
            ELSE /\ fault = "none"
                 /\ runs' = Append(runs, RunEntry(h, "done", max_conf))
                 /\ results' = written
                 /\ review' = IF low
                        THEN WriteFile(review, OutName(h.image),
                                       ReviewRecord(h.image, h.resp, max_conf))
                        ELSE review
                 /\ UNCHANGED <<pc, observer>>
    /\ h' = Idle
    /\ UNCHANGED <<watchDir, dirExists, noWatch, scanList, scanIdx, eventQueue,
                   interrupted, creates, input, output>>

(***************************************************************************)
(* main: the startup scan, then the observer.                              *)
(***************************************************************************)
\* sorted(watch_dir.iterdir() if watch_dir.exists() else [])
Listing == Sorted(IF dirExists THEN watchDir ELSE {})

ScanList ==
    /\ pc = "start"
    /\ scanList' = Listing
    /\ scanIdx' = 1
    /\ pc' = "scan"
    /\ UNCHANGED <<watchDir, dirExists, noWatch, observer, eventQueue, h, results,
                   review, runs, interrupted, creates, input, output>>

\* One iteration of the for loop of scan_existing_and_process, up to the
\* call of handle_image; the loop ends when the listing is exhausted.
ScanNext ==
    /\ pc = "scan"
    /\ h.state = "idle"
    /\ IF scanIdx > Len(scanList)
           THEN pc' = "scanned" /\ UNCHANGED <<scanIdx, h>>
           ELSE LET p == scanList[scanIdx]
                IN  /\ scanIdx' = scanIdx + 1
                    /\ h' = IF is_file(p) /\ is_image_file(p)
                                THEN Entered("scan", p) ELSE Idle
                    /\ UNCHANGED pc
    /\ UNCHANGED <<watchDir, dirExists, noWatch, scanList, observer, eventQueue,
                   results, review, runs, interrupted, creates, input, output>>

\* if args.no_watch: return; otherwise the observer is scheduled and started.
AfterScan ==
    /\ pc = "scanned"
    /\ IF noWatch
           THEN pc' = "returned" /\ UNCHANGED observer
           ELSE pc' = "watching" /\ observer' = "running"
    /\ UNCHANGED <<watchDir, dirExists, noWatch, scanList, scanIdx, eventQueue, h,
                   results, review, runs, interrupted, creates, input, output>>

\* NewImageHandler.on_created for the next queued event.
OnCreated ==
    /\ observer = "running"
    /\ h.state = "idle"
    /\ eventQueue # <<>>
    /\ LET event == Head(eventQueue)
       IN  h' = IF ~event.is_directory /\ is_image_file(event.src_path)
                    THEN Entered("event", event.src_path) ELSE Idle
    /\ eventQueue' = Tail(eventQueue)
    /\ UNCHANGED <<watchDir, dirExists, noWatch, pc, scanList, scanIdx, observer,
                   results, review, runs, interrupted, creates, input, output>>

\* The environment creates an entry in the watch directory; a started
\* observer is notified of it.
Create ==
    /\ dirExists
    /\ creates < MaxCreates
    /\ pc \in {"start", "scan", "scanned", "watching"}
    /\ \E name \in Names \ watchDir :
        /\ watchDir' = watchDir \cup {name}
        /\ eventQueue' = IF observer = "running"
               THEN Append(eventQueue, [src_path |-> name,
                                        is_directory |-> IsDirectory(name)])
               ELSE eventQueue
    /\ creates' = creates + 1
    /\ UNCHANGED <<dirExists, noWatch, pc, scanList, scanIdx, observer, h, results,
                   review, runs, interrupted, input, output>>

\* KeyboardInterrupt in the main thread.  Only the while loop is inside the
\* try: there the observer is stopped and main goes on to join it; earlier
\* the exception leaves main, dropping the call in progress.
Interrupt ==
    /\ ~interrupted
    /\ pc \in {"start", "scan", "scanned", "watching"}
    /\ interrupted' = TRUE
    /\ IF pc = "watching"
           THEN /\ pc' = "joining"
                /\ observer' = IF observer = "running" THEN "stopping" ELSE observer
                /\ UNCHANGED h
           ELSE /\ pc' = "killed"
                /\ h' = Idle
                /\ UNCHANGED observer
    /\ UNCHANGED <<watchDir, dirExists, noWatch, scanList, scanIdx, eventQueue,
                   results, review, runs, creates, input, output>>

\* The stopped observer thread ends once the handler it is running returns.
ObserverExit ==
    /\ observer = "stopping"
    /\ h.state = "idle"
    /\ observer' = "stopped"
    /\ UNCHANGED <<watchDir, dirExists, noWatch, pc, scanList, scanIdx, eventQueue,
                   h, results, review, runs, interrupted, creates, input, output>>

\* observer.join() returns and main returns.
Join ==
    /\ pc = "joining"
    /\ observer \in {"stopped", "dead"}
    /\ pc' = "returned"
    /\ UNCHANGED <<watchDir, dirExists, noWatch, scanList, scanIdx, observer,
                   eventQueue, h, results, review, runs, interrupted, creates,
                   input, output>>

Next ==
    \/ ScanList
    \/ ScanNext
    \/ SendAttempt
    \/ WriteRecords
    \/ AfterScan
    \/ OnCreated
    \/ Create
    \/ Interrupt
    \/ ObserverExit
    \/ Join

Spec == Init /\ [][Next]_vars

(***************************************************************************)
(* extract_max_confidence on its own: the argument is drawn from the JSON  *)
(* values below, then the function is applied to it.                       *)
(***************************************************************************)
Elements ==
    {Dict(c, s, p) : c \in {Absent, Num(60), Bool(TRUE)},
                     s \in {Absent, Num(-20), Other},
                     p \in {Absent, Num(30), Num(95)}} \cup {NonDict}

\* The lists of at most n elements.
ListsUpTo(n) == UNION {[1..k -> Elements] : k \in 0..n}

FieldsUpTo(n) == {NoField, NotAList} \cup {List(l) : l \in ListsUpTo(n)}

FewFields == {NoField, NotAList, List(<<>>), List(<<Dict(Absent, Num(95), Absent)>>)}

TopConfidences == {Absent, Num(-20), Num(50), Bool(TRUE), Other}

\* The arguments tried, their lists of at most n elements.
ExtractInputs(n) ==
    {NonMapping}
        \cup {Mapping(c, d, p) : c \in TopConfidences, d \in FieldsUpTo(n),
                                 p \in FewFields}
        \cup {Mapping(c, d, p) : c \in TopConfidences, d \in {NoField, NotAList},
                                 p \in FieldsUpTo(n)}

ExtractInit ==
    /\ input \in ExtractInputs(MaxLen)
    /\ output = [done |-> FALSE, value |-> 0]
    /\ watchDir = {}
    /\ dirExists = TRUE
    /\ noWatch = TRUE
    /\ pc = "start"
    /\ scanList = <<>>
    /\ scanIdx = 1
    /\ observer = "none"
    /\ eventQueue = <<>>
    /\ h = Idle
    /\ results = NoFiles
    /\ review = NoFiles
    /\ runs = <<>>
    /\ interrupted = FALSE
    /\ creates = 0

Extract ==
    /\ ~output.done
    /\ output' = [done |-> TRUE, value |-> extract_max_confidence(input)]
    /\ UNCHANGED <<watchDir, dirExists, noWatch, pc, scanList, scanIdx, observer,
                   eventQueue, h, results, review, runs, interrupted, creates, input>>

ExtractNext == Extract

ExtractSpec == ExtractInit /\ [][ExtractNext]_vars

(***************************************************************************)
(* What the claims about the extractor speak of: the JSON numbers among    *)
(* the three fields of the mapping elements of a list, and their maximum   *)
(* with the floor 0.0.  A JSON boolean is not a JSON number.               *)
(***************************************************************************)
NumericFields(items) ==
    {items[i].kv[k].n : <<i, k>> \in
        {x \in (1..Len(items)) \X {"confidence", "score", "probability"} :
            items[x[1]].isdict /\ items[x[1]].kv[x[2]].t = "num"}}

FlooredMax(S) == IF \E x \in S : x > 0 THEN CHOOSE m \in S : \A x \in S : x <= m ELSE 0

HasDetectionsList(v) == v.isdict /\ v.detections.t = "list"

\* C7: for every mapping whose 'detections' value is a list, the result is >= 0.0
\* and equals the maximum of the numeric confidence / score / probability
\* fields of the list's mapping elements (other elements and non-numeric
\* values skipped), whatever the top-level 'confidence' and 'predictions' are.
C7_DetectionsMax ==
    (output.done /\ HasDetectionsList(input)) =>
        /\ output.value >= 0
        /\ output.value = FlooredMax(NumericFields(input.detections.items))

\* C8: without a 'detections' list, a numeric top-level 'confidence' is
\* returned verbatim (negative too, 'predictions' ignored); only without one
\* the floored maximum over a 'predictions' list is returned; a mapping with
\* none of these shapes, and any non-mapping, give 0.0.
C8_NoDetections ==
    (output.done /\ ~HasDetectionsList(input)) =>
        output.value =
            IF ~input.isdict THEN 0
            ELSE IF input.confidence.t = "num" THEN input.confidence.n
            ELSE IF input.predictions.t = "list"
                THEN FlooredMax(NumericFields(input.predictions.items))
            ELSE 0

(***************************************************************************)
(* What the claims about the pipeline speak of.                            *)
(***************************************************************************)
\* The entries of Names that are files with an extension in {jpg, jpeg, png,
\* bmp, gif}, case-insensitively, listed by hand: d.jpg is a directory,
\* n.txt is a text file, and .png is a hidden file without extension.
ImageFiles == {NameJpg, NamePng}

Stems == {Stem(n) : n \in Names}

RunIdx == 1..Len(runs)

\* The upload of the call succeeded.
Uploaded(r) == r.outcome # "send_failed"

\* The call raised at a write to the results or the review location.
WriteFailed(r) == r.outcome \in {"results_failed", "review_failed"}

\* The call wrote its results record.
WroteResults(r) == r.outcome \in {"done", "review_failed"}

Last(S) == CHOOSE i \in S : \A j \in S : j <= i

NoWriteFailure == \A i \in RunIdx : ~WriteFailed(runs[i])

C2_FailedSendStep ==
    (Len(runs') = Len(runs) + 1 /\ runs'[Len(runs')].outcome = "send_failed") =>
        /\ results' = results
        /\ review' = review
        /\ h' = Idle
        /\ scanIdx' = scanIdx
        /\ eventQueue' = eventQueue
        /\ pc' = pc
        /\ observer' = observer
        /\ (h.who = "scan" => pc' = "scan")
        /\ (h.who = "event" => observer' \in {"running", "stopping"})

C2_NotRetried ==
    \A i \in RunIdx :
        runs[i].outcome = "send_failed" =>
            /\ \A j \in RunIdx : j > i => runs[j].image # runs[i].image
            /\ h.state # "idle" => h.image # runs[i].image

\* C2: both parts together: no call is ever made again for an image whose
\* upload failed, and the step that ends the failed call writes nothing and
\* leaves the scan or the listener going.
C2_SendFailureIsolated == []C2_NotRetried /\ [][C2_FailedSendStep]_vars

\* An upload failed for good and a later image was processed to the end.
C2_Witness ==
    \E i, j \in RunIdx :
        /\ i < j
        /\ runs[i].outcome = "send_failed"
        /\ runs[j].outcome = "done"
        /\ results[Stem(runs[j].image)].image = runs[j].image
        /\ \A s \in DOMAIN results : results[s].image # runs[i].image

AllErrors(tried) == \A k \in 1..Len(tried) : tried[k].kind = "error"

WaitsBounded(waits) ==
    /\ \A k \in 1..Len(waits) : waits[k] <= 10
    /\ \A k \in 1..Len(waits) - 1 : waits[k] <= waits[k + 1]

\* C3: a call of send_image makes at most 3 attempts; it returns the response
\* of its first successful attempt and makes no attempt after it; it raises
\* only after exactly 3 failed attempts; the waits between attempts are
\* non-decreasing and at most 10.
C3_BoundedRetry ==
    /\ \A i \in RunIdx :
        LET r == runs[i]
            n == Len(r.tried)
        IN  /\ n >= 1 /\ n <= 3
            /\ AllErrors(SubSeq(r.tried, 1, n - 1))
            /\ Len(r.waits) = n - 1
            /\ WaitsBounded(r.waits)
            /\ IF Uploaded(r)
                   THEN r.tried[n].kind = "ok" /\ r.resp = r.tried[n].body
                   ELSE n = 3 /\ AllErrors(r.tried)
    /\ h.state = "send" =>
        /\ Len(h.tried) < 3
        /\ AllErrors(h.tried)
        /\ Len(h.waits) = Len(h.tried)
        /\ WaitsBounded(h.waits)
    /\ h.state = "write" =>
        /\ Len(h.tried) <= 3
        /\ h.tried[Len(h.tried)].kind = "ok"
        /\ h.resp = h.tried[Len(h.tried)].body

\* The endpoint failed twice and then succeeded: three attempts, waits 1 and 2.
C3_Witness ==
    \E i \in RunIdx :
        /\ Len(runs[i].tried) = 3
        /\ Uploaded(runs[i])
        /\ runs[i].resp = LowResp
        /\ runs[i].waits = <<1, 2>>

\* The stems whose most recent successful processing scored below the threshold.
LatestIsLow(s) ==
    LET idx == {i \in RunIdx : runs[i].outcome = "done" /\ Stem(runs[i].image) = s}
    IN  idx # {} /\ runs[Last(idx)].score < 80

C5_WriteErrorIsolated ==
    \A i \in RunIdx :
        WriteFailed(runs[i]) =>
            /\ runs[i].who = "scan" => pc # "crashed"
            /\ runs[i].who = "event" => observer # "dead"

\* C6: the startup scan handles the image files of its listing in sorted
\* order, one at a time and all of them, before the handler of the first
\* creation event runs; handle_image is never entered for a directory or for
\* a name whose extension is not a supported one.
C6_ScanOrder ==
    /\ \A i, j \in RunIdx :
        i < j =>
            /\ ~(runs[i].who = "event" /\ runs[j].who = "scan")
            /\ (runs[i].who = "scan" /\ runs[j].who = "scan")
                   => NameLess(runs[i].image, runs[j].image)
    /\ \A i \in RunIdx : runs[i].image \in ImageFiles
    /\ h.state # "idle" => h.image \in ImageFiles
    /\ h.who = "scan" =>
        /\ pc = "scan"
        /\ \A i \in RunIdx : NameLess(runs[i].image, h.image)
    /\ (h.who = "event" \/ \E i \in RunIdx : runs[i].who = "event" \/ eventQueue # <<>>)
           => pc \in {"watching", "joining", "returned"}
    /\ pc \in {"scanned", "watching", "joining", "returned"} =>
        \A k \in 1..Len(scanList) :
            scanList[k] \in ImageFiles =>
                \E i \in RunIdx : runs[i].who = "scan" /\ runs[i].image = scanList[k]
    /\ \A k \in 1..Len(scanList) - 1 : NameLess(scanList[k], scanList[k + 1])

\* The scan skipped a directory and handled A.PNG before a.jpg, and an event
\* is being handled only after it.
C6_Witness ==
    /\ Len(runs) = 2
    /\ runs[1].who = "scan" /\ runs[1].image = NamePng
    /\ runs[2].who = "scan" /\ runs[2].image = NameJpg
    /\ NameDir \in {scanList[k] : k \in 1..Len(scanList)}
    /\ pc = "watching"
    /\ eventQueue # <<>>

\* C9: with --no-watch main returns after the scan and starts no listener;
\* with listening enabled main ends only by returning, after an interrupt,
\* with the listener stopped and no pipeline in flight.
C9_MainExit ==
    /\ noWatch => (pc # "crashed" /\ observer = "none")
    /\ ~noWatch =>
        /\ pc \notin {"crashed", "killed"}
        /\ pc = "returned" =>
               (interrupted /\ observer = "stopped" /\ h.state = "idle")

Handled(name) ==
    \/ \E i \in RunIdx : runs[i].image = name
    \/ (h.state # "idle" /\ h.image = name)

\* C10: every image file of the watch directory is eventually handled: once
\* the listener runs, is idle and has no event left, every image file present
\* has been handled.
C10_NoMissedFile ==
    (pc = "watching" /\ observer = "running" /\ h.state = "idle" /\ eventQueue = <<>>)
        => \A name \in watchDir \cap ImageFiles : Handled(name)

====
